---- MODULE Spec2Model ----
(***************************************************************************)
(* powerimo-secrets-web: the secret retrieval view (src/pages/secret.tsx). *)
(* The view keeps a reducer state (secretText, errorText, needPassword,    *)
(* isLoading), fetches the secret for the route's code on mount and on     *)
(* every code change, and re-fetches with a password when the password     *)
(* form is submitted.  Requests are never cancelled; each one dispatches   *)
(* its outcome when it settles.                                            *)
(*                                                                         *)
(* The secret creation view (src/pages/main.tsx) is the second part: a     *)
(* form validated on submit, one POST per valid submission, and the result *)
(* surfaced through the secretUrl field, the clipboard and notifications.  *)
(* Spec is the retrieval view, SpecMain the creation view.                 *)
(***************************************************************************)
EXTENDS Integers, Sequences, FiniteSets, TLC

\* ------------------------------------------------------------------ bounds
\* At most this many GET requests are issued in one behaviour.
MaxRequests == 3

\* At most this many things are done by the user of the creation view and of
\* the copy buttons in one behaviour: edits of a field, submissions, copies.
MaxEvents == 4

\* ------------------------------------------------------------------ values
\* JavaScript null / undefined.
NULL == "<null>"

\* JavaScript truthiness of a (string | null | undefined) value held as a TLA+ string.
Truthy(s) == s /= NULL /\ s /= ""

\* JavaScript undefined, for a value held as a sequence of characters.
UNDEFINED == <<"<undefined>">>

\* Truthiness of a (string | undefined) value held as a sequence of characters.
TruthySeq(p) == p /= UNDEFINED /\ p /= <<>>

\* Route codes the view is shown for (useParams), as character sequences.
Codes == { <<"A">>, <<"B">> }

\* CONFIG.apiSecretsUrl, an opaque URL prefix.
ApiSecretsUrl == <<"/", "a", "p", "i">>

\* Characters passwords are typed from.  "\\uD800" stands for a lone high surrogate.
Alphabet == { "a", "p", "w", " ", "&", "=", "e'", "\\uD800" }

\* The printable ASCII characters in code unit order: U+0020 to U+005F, and
\* U+0061 to U+007E.
AsciiLow ==
    <<
       " ", "!", "\"", "#", "$", "%", "&", "'", "(", ")", "*", "+", ",", "-", ".", "/",
       "0", "1", "2", "3", "4", "5", "6", "7", "8", "9", ":", ";", "<", "=", ">", "?",
       "@", "A", "B", "C", "D", "E", "F", "G", "H", "I", "J", "K", "L", "M", "N", "O",
       "P", "Q", "R", "S", "T", "U", "V", "W", "X", "Y", "Z", "[", "\\", "]", "^", "_" >>
AsciiHigh ==
    <<
       "a", "b", "c", "d", "e", "f", "g", "h", "i", "j", "k", "l", "m", "n", "o", "p",
       "q", "r", "s", "t", "u", "v", "w", "x", "y", "z", "{", "|", "}", "~" >>

\* UTF-16 code unit of a character: a printable ASCII character, a control
\* character, or one of the alphabet's other characters ("e'" is U+00E9).
CodePoint(c) ==
    IF \E i \in 1..Len(AsciiLow) : AsciiLow[i] = c
    THEN 31 + (CHOOSE i \in 1..Len(AsciiLow) : AsciiLow[i] = c)
    ELSE IF \E i \in 1..Len(AsciiHigh) : AsciiHigh[i] = c
    THEN 96 + (CHOOSE i \in 1..Len(AsciiHigh) : AsciiHigh[i] = c)
    ELSE CASE c = "\t" -> 9
           [] c = "\n" -> 10
           [] c = "\r" -> 13
           [] c = "e'" -> 233
           [] c = "\\uD800" -> 55296

\* Values the password field holds: what the user types into it, or the empty
\* string of defaultValues.
Passwords ==
    { <<>>,
      <<" ", " ">>,
      <<" ", "a", "&", "=", "e'">>,
      <<"\\uD800">> }

\* HTTP statuses the API answers with.
Statuses == { 200, 401, 404, 500 }

\* Response bodies on the wire: plain text, or a JSON object with a message field.
Bodies ==
    { [kind |-> "text", text |-> ""],
      [kind |-> "text", text |-> "hello"],
      [kind |-> "text", text |-> "Enter password"],
      [kind |-> "json", message |-> "boom"] }

\* Values a rejected fetch() or response.text() throws: an Error with a message,
\* an Error without one, and a value that is no Error.
Thrown ==
    { [isError |-> TRUE, message |-> "offline"],
      [isError |-> TRUE, message |-> ""],
      [isError |-> FALSE, message |-> NULL] }

\* Translation tables the page can run with ('Secret page' key prefix): the
\* keys are the English texts; a missing key translates to itself.
NoTranslations == [k \in {} |-> ""]
SomeTranslations ==
    [k \in { "Enter password", "Failed to fetch the secret",
             "Unexpected error occurred", "Password is required" } |->
        CASE k = "Enter password" -> "Vvedite parol"
          [] k = "Failed to fetch the secret" -> "Ne udalos poluchit sekret"
          [] k = "Unexpected error occurred" -> "Nepredvidennaya oshibka"
          [] k = "Password is required" -> "Trebuetsya parol"]
Dictionaries == { NoTranslations, SomeTranslations }

VARIABLES
    state,       \* the reducer state: secretText, errorText, needPassword, isLoading
    code,        \* the route's code parameter (useParams)
    mounted,     \* whether the mount effect has run
    dict,        \* the translation table t() reads
    passwordField, \* the value the password field holds (react-hook-form)
    isSubmitted, \* whether the password form has been submitted (formState.isSubmitted)
    formError,   \* the password field's validation message, or NULL
    requests,    \* every GET issued so far, in order
    pending,     \* indices (into requests) of the GETs not yet settled
    applied,     \* indices of the settled GETs, in the order their outcome was dispatched
    last,        \* the outcome dispatched most recently, or NoOutcome
    escaped,     \* whether an exception has left fetchSecret uncaught
    secretCode   \* the code of the GET whose 200 set the secretText held, or NoCode

\* The creation view.
VARIABLES
    mform,             \* the form's field values (react-hook-form)
    fieldErrors,       \* the fields the last validation marked invalid
    clipboardPresent,  \* whether navigator.clipboard exists
    validatedAt,       \* the clock value the last validation compared the expiration with
    submittedAt,       \* the clock value the last createSecret read with Date.now()
    submissions,       \* number of submissions that passed validation
    posts,             \* number of POST requests issued
    lastPost,          \* the most recent POST request, or NoPost
    lastAttempt,       \* what the most recent handleSubmit validated, or NoAttempt
    calls,             \* per createSecret call: where it stands, and the url it received
    lastDone,          \* the call that finished most recently and what it settled with
    toasts,            \* number of notifications shown
    lastToast,         \* the notification shown most recently, or NoToast
    clipboardWrites,   \* number of clipboard writes createSecret has started
    copies,            \* the copy buttons' clicks, in order: view, text, write phase, toast
    events             \* number of things the user has done: edits, submissions, copies

secretVars == << state, code, mounted, dict, passwordField, isSubmitted, formError, requests, pending, applied, last,
                 escaped, secretCode >>

mainVars == << mform, fieldErrors, clipboardPresent, validatedAt, submittedAt, submissions,
               posts, lastPost, lastAttempt, calls, lastDone, toasts, lastToast, clipboardWrites,
               copies, events >>

vars == << secretVars, mainVars >>

\* ------------------------------------------------------------------ reducer
initialState ==
    [secretText |-> NULL, errorText |-> NULL, needPassword |-> FALSE, isLoading |-> TRUE]

\* reducer with FETCH_SUCCESS leaving the previous error message in place.
reducerSuccessKeepsError(s, action) ==
    CASE action.type = "FETCH_SUCCESS" ->
            [s EXCEPT !.secretText = action.payload, !.isLoading = FALSE]
      [] action.type = "FETCH_NEED_PASSWORD" ->
            [s EXCEPT !.errorText = action.payload, !.needPassword = TRUE,
                      !.isLoading = FALSE]
      [] action.type = "FETCH_ERROR" ->
            [s EXCEPT !.errorText = action.payload, !.needPassword = FALSE,
                      !.isLoading = FALSE]
      [] action.type = "SET_LOADING" ->
            [s EXCEPT !.isLoading = action.payload]
      [] OTHER -> s

reducer(s, action) ==
    CASE action.type = "FETCH_SUCCESS" ->
            [s EXCEPT !.secretText = action.payload, !.errorText = NULL,
                      !.needPassword = FALSE, !.isLoading = FALSE]
      [] action.type = "FETCH_NEED_PASSWORD" ->
            [s EXCEPT !.errorText = action.payload, !.needPassword = TRUE,
                      !.isLoading = FALSE]
      [] action.type = "FETCH_ERROR" ->
            [s EXCEPT !.errorText = action.payload, !.needPassword = FALSE,
                      !.isLoading = FALSE]
      [] action.type = "SET_LOADING" ->
            [s EXCEPT !.isLoading = action.payload]
      [] OTHER -> s

\* ------------------------------------------------------------------ helpers
\* t(key): the translation of key, or key itself when the table has none.
t(key) == IF key \in DOMAIN dict THEN dict[key] ELSE key

\* response.text(): the body as the text that was sent.
ResponseText(body) ==
    IF body.kind = "json"
    THEN "{\"message\":\"" \o body.message \o "\"}"
    ELSE body.text

\* String.prototype.trim(): white space and line terminators, by code unit.
WhiteSpace(c) ==
    CodePoint(c) \in ({9, 10, 11, 12, 13, 32, 160, 5760, 8232, 8233, 8239, 8287, 12288, 65279}
                      \cup (8192..8202))

\* p from its first character that is no white space.
TrimStart(p) ==
    IF \A i \in 1..Len(p) : WhiteSpace(p[i]) THEN <<>>
    ELSE SubSeq(p, CHOOSE i \in 1..Len(p) :
                       ~WhiteSpace(p[i]) /\ \A j \in 1..(i - 1) : WhiteSpace(p[j]),
                Len(p))

\* p up to its last character that is no white space.
TrimEnd(p) ==
    IF \A i \in 1..Len(p) : WhiteSpace(p[i]) THEN <<>>
    ELSE SubSeq(p, 1, CHOOSE i \in 1..Len(p) :
                          ~WhiteSpace(p[i]) /\ \A j \in (i + 1)..Len(p) : WhiteSpace(p[j]))

trim(p) == TrimEnd(TrimStart(p))

\* A FormSchema that accepts every non-empty password, blank or not.
FormSchemaValidNoTrim(p) == TruthySeq(p)

\* The refinement of FormSchema: data.password && data.password.trim() !== ''.
FormSchemaValid(p) == TruthySeq(p) /\ trim(p) /= <<>>

\* encodeURIComponent leaves these characters as they are: A-Z a-z 0-9 - _ . ! ~ * ' ( )
Unreserved(c) ==
    CodePoint(c) \in ((65..90) \cup (97..122) \cup (48..57)
                      \cup {45, 95, 46, 33, 126, 42, 39, 40, 41})

\* A surrogate code unit; every one in the alphabet stands alone (unpaired).
LoneSurrogate(c) == CodePoint(c) \in 55296..57343

HexDigits == <<"0", "1", "2", "3", "4", "5", "6", "7", "8", "9", "A", "B", "C", "D", "E", "F">>

\* One byte, percent-encoded: "%" and two upper-case hexadecimal digits.
PercentByte(b) == <<"%", HexDigits[(b \div 16) + 1], HexDigits[(b % 16) + 1]>>

\* The UTF-8 bytes of a code point below U+10000.
Utf8(cp) ==
    IF cp < 128 THEN <<cp>>
    ELSE IF cp < 2048 THEN <<192 + (cp \div 64), 128 + (cp % 64)>>
    ELSE <<224 + (cp \div 4096), 128 + ((cp \div 64) % 64), 128 + (cp % 64)>>

RECURSIVE PercentBytes(_)
PercentBytes(bytes) ==
    IF bytes = <<>> THEN <<>>
    ELSE PercentByte(Head(bytes)) \o PercentBytes(Tail(bytes))

\* encodeURIComponent throws URIError on a lone surrogate.
URIMalformed(p) == \E i \in 1..Len(p) : LoneSurrogate(p[i])

RECURSIVE encodeURIComponent(_)
encodeURIComponent(p) ==
    IF p = <<>> THEN <<>>
    ELSE (IF Unreserved(Head(p)) THEN <<Head(p)>>
          ELSE PercentBytes(Utf8(CodePoint(Head(p)))))
         \o encodeURIComponent(Tail(p))

\* QueryParams with the password put into the URL as typed.
QueryParamsRaw(password) ==
    IF TruthySeq(password)
    THEN <<"?", "p", "a", "s", "s", "w", "o", "r", "d", "=">> \o password
    ELSE <<>>

\* params: password ? `?password=${encodeURIComponent(password)}` : ''
QueryParams(password) ==
    IF TruthySeq(password)
    THEN <<"?", "p", "a", "s", "s", "w", "o", "r", "d", "=">> \o encodeURIComponent(password)
    ELSE <<>>

\* `${CONFIG.apiSecretsUrl}/${code}${params}`
RequestUrl(c, password) == ApiSecretsUrl \o <<"/">> \o c \o QueryParams(password)

\* The outcomes a pending GET can settle with: a response, or fetch() or
\* response.text() rejecting with a thrown value.
Outcomes ==
    [kind : {"response"}, status : Statuses, body : Bodies]
    \cup [kind : {"fetch_throws", "text_throws"}, thrown : Thrown]

\* The value of secretCode while no secret text has been received.
NoCode == <<>>

\* The value of last before any request has settled.
NoOutcome == [req |-> 0, outcome |-> [kind |-> "none"]]

\* CatchPayload with the thrown Error's message dropped for the generic text.
CatchPayloadGeneric(thrown) == t("Unexpected error occurred")

\* The payload of the FETCH_ERROR dispatched in the catch block.
CatchPayload(thrown) ==
    IF thrown.isError THEN thrown.message ELSE t("Unexpected error occurred")

\* SettledAction with the body of an error response ignored for the fallback text.
SettledActionIgnoresBody(o) ==
    IF o.kind = "response"
    THEN LET text == ResponseText(o.body) IN
         IF o.status = 200
         THEN [type |-> "FETCH_SUCCESS", payload |-> text]
         ELSE IF o.status = 401
         THEN [type |-> "FETCH_NEED_PASSWORD", payload |-> t(text)]
         ELSE [type |-> "FETCH_ERROR", payload |-> t("Failed to fetch the secret")]
    ELSE [type |-> "FETCH_ERROR", payload |-> CatchPayload(o.thrown)]

\* The action fetchSecret dispatches when its request settles with outcome o.
SettledAction(o) ==
    IF o.kind = "response"
    THEN LET text == ResponseText(o.body) IN
         IF o.status = 200
         THEN [type |-> "FETCH_SUCCESS", payload |-> text]
         ELSE IF o.status = 401
         THEN [type |-> "FETCH_NEED_PASSWORD", payload |-> t(text)]
         ELSE [type |-> "FETCH_ERROR",
               payload |-> IF Truthy(text) THEN text ELSE t("Failed to fetch the secret")]
    ELSE [type |-> "FETCH_ERROR", payload |-> CatchPayload(o.thrown)]

\* A catch clause that takes Error instances only and lets other values pass.
CaughtOnlyErrors(thrown) == thrown.isError

\* catch (error): the try block's catch clause takes every thrown value.
Caught(thrown) == TRUE

\* What the view renders for a reducer state.
Render(s) ==
    [error    |-> IF Truthy(s.errorText) THEN s.errorText ELSE NULL,
     spinner  |-> s.isLoading,
     secret   |-> IF ~s.isLoading /\ Truthy(s.secretText) THEN s.secretText ELSE NULL,
     form     |-> ~s.isLoading /\ ~Truthy(s.secretText) /\ s.needPassword]

\* ------------------------------------------------------------------ creation view: values
\* Milliseconds in a second, the divisor of the ttl computation.
MsPerSecond == 1000

\* Time is counted from `today`, the local midnight before the page was loaded,
\* in a time zone without clock changes.  A clock value (Date.now(), new Date())
\* is the number of ms since then; a Date held by the form is <<day, ms>>, the
\* day after today and the ms into that day, or <<>> for undefined.
MsPerMinute == 60000
MsPerHour == 3600000
MsPerDay == 86400000
SecondsPerDay == 86400

\* The days from today to the same date of the next year.
YearDays == 365

\* Clock values Date.now() and new Date() return.
Times == { 1000, 300000, 301500 }

NoDate == <<>>

\* new Date() for a clock value.
DateOf(now) == << now \div MsPerDay, now % MsPerDay >>

\* a > b for two Dates.
Later(a, b) == a[1] > b[1] \/ (a[1] = b[1] /\ a[2] > b[2])

\* date.setHours(value): the minutes, seconds and ms stay.
SetHours(date, value) == << date[1], value * MsPerHour + (date[2] % MsPerHour) >>

\* date.setMinutes(value): the hours, seconds and ms stay.
SetMinutes(date, value) ==
    << date[1], (date[2] \div MsPerHour) * MsPerHour + value * MsPerMinute
                    + (date[2] % MsPerMinute) >>

\* The hour and minute buttons of the expiration picker.
HOURS == 0..23
MINUTES == { i * 5 : i \in 0..11 }

\* The url the API returns for a created secret.
SecretUrl == "https://s/abc"

\* useForm defaultValues: the expiration is today's date of the next year.
DefaultValues ==
    [secretText |-> "", dateTime |-> << YearDays, 0 >>, hitLimit |-> <<"1">>, password |-> "",
     secretUrl |-> ""]

\* What the user types into the secret text, hit limit and password fields, the
\* days picked in the calendar and the hour and minute buttons clicked.
SecretTexts == { "", "s3cret" }
HitLimitInputs == { <<"1">>, <<"1", ".", "5">>, <<"1", "e", "1">> }
PasswordInputs == { "", "pw" }
CalendarDays == { 0 }
PickedHours == { 0 }
PickedMinutes == { 5 }

\* reset(values): the form holds the given values and every other field is undefined.
ResetValues(url) ==
    [secretText |-> NULL, dateTime |-> NoDate, hitLimit |-> UNDEFINED, password |-> NULL,
     secretUrl |-> url]

\* --- Number(value): the string is read by the StringNumericLiteral grammar and
\* the value it denotes is rounded to the nearest IEEE 754 double (ties to even).
DecimalDigits == <<"0", "1", "2", "3", "4", "5", "6", "7", "8", "9">>

IsDigit(c) == \E v \in 0..9 : DecimalDigits[v + 1] = c

DigitValue(c) == CHOOSE v \in 0..9 : DecimalDigits[v + 1] = c

\* Natural numbers of any size are sequences of decimal digits 0..9, the most
\* significant first; Strip removes leading zeros, so that zero is <<>>.
Strip(m) ==
    IF \A i \in 1..Len(m) : m[i] = 0 THEN <<>>
    ELSE SubSeq(m, CHOOSE i \in 1..Len(m) : m[i] /= 0 /\ \A j \in 1..(i - 1) : m[j] = 0,
                Len(m))

Zeros(n) == SubSeq([i \in 1..n |-> 0], 1, n)

\* m \div 2, digit by digit: the remainder a digit hands down is its parity.
Halve(m) ==
    LET h == [i \in 1..Len(m) |->
                 ((IF i > 1 THEN 10 * (m[i - 1] % 2) ELSE 0) + m[i]) \div 2]
    IN Strip(SubSeq(h, 1, Len(m)))

\* 2 * m: a digit takes a carry when the digit to its right is 5 or more.
Double(m) ==
    LET x == <<0>> \o m
        d == [i \in 1..Len(x) |->
                 ((2 * x[i]) % 10) + (IF i < Len(x) /\ x[i + 1] >= 5 THEN 1 ELSE 0)]
    IN Strip(SubSeq(d, 1, Len(x)))

\* m + c for a small natural c.
RECURSIVE AddSmall(_, _)
AddSmall(m, c) ==
    IF c = 0 THEN m
    ELSE IF m = <<>> THEN AddSmall(<<>>, c \div 10) \o <<c % 10>>
    ELSE LET v == m[Len(m)] + c IN
         AddSmall(SubSeq(m, 1, Len(m) - 1), v \div 10) \o <<v % 10>>

Odd(m) == m /= <<>> /\ m[Len(m)] % 2 = 1

\* m \div 2^s, halving s times (the first half of the steps, then the rest).
RECURSIVE HalveTimes(_, _)
HalveTimes(m, s) ==
    IF s = 0 THEN m
    ELSE IF s = 1 THEN Halve(m)
    ELSE LET x == HalveTimes(m, s \div 2) IN
         IF x = <<>> THEN <<>> ELSE HalveTimes(x, s - (s \div 2))

\* m * 2^s, doubling s times.
RECURSIVE ShiftLeft(_, _)
ShiftLeft(m, s) ==
    IF s = 0 THEN m
    ELSE IF s = 1 THEN Double(m)
    ELSE LET x == ShiftLeft(m, s \div 2) IN
         IF x = <<>> THEN <<>> ELSE ShiftLeft(x, s - (s \div 2))

\* The number of binary digits of x, without leading zeros: a number of d + 2
\* decimal digits is at least 10^d, so it keeps a binary digit after 3 * d
\* halvings.
RECURSIVE BitsOf(_)
BitsOf(x) ==
    IF x = <<>> THEN 0
    ELSE IF Len(x) <= 2 THEN 1 + BitsOf(Halve(x))
    ELSE 3 * (Len(x) - 2) + BitsOf(HalveTimes(x, 3 * (Len(x) - 2)))

\* The number of binary digits of m (0 for zero).
BitLength(m) == BitsOf(Strip(m))

\* 5^n, which is 10^n / 2^n.
Pow5(n) == HalveTimes(<<1>> \o Zeros(n), n)

\* Digit sequences of one length, compared from the left.
LexLess(a, b) ==
    \E i \in 1..Len(a) : a[i] < b[i] /\ \A j \in 1..(i - 1) : a[j] = b[j]

\* f filled up with zeros on the right to n digits.
PadRight(f, n) == f \o Zeros(n - Len(f))

\* f <= g for two fractions given by their digits after the point.
FracLeq(f, g) ==
    IF Len(f) > Len(g) THEN ~LexLess(PadRight(g, Len(f)), f)
    ELSE ~LexLess(g, PadRight(f, Len(g)))

\* p filled up with zeros on the left to n digits.
PadLeft(p, n) == Zeros(n - Len(p)) \o p

\* The digits after the point of 2^-n, which is 5^n / 10^n.
TwoToMinus(n) == PadLeft(Pow5(n), n)

\* f <= 2^-n for a fraction f.  2^-n is below 10^-z for z = 3n \div 10 (2^10
\* is above 10^3), so an f with a digit in its first z places is above 2^-n.
AtMostTwoToMinus(f, n) ==
    IF \E i \in 1..Len(f) : i <= (3 * n) \div 10 /\ f[i] /= 0 THEN FALSE
    ELSE FracLeq(f, TwoToMinus(n))

\* The digits after the point of 1 - f, for a fraction f other than zero.
\* Each digit before the final one other than 0 is taken from 9, that one from 10.
OneMinus(f) ==
    LET final == CHOOSE i \in 1..Len(f) : f[i] /= 0 /\ \A j \in (i + 1)..Len(f) : f[j] = 0
        d == [i \in 1..Len(f) |->
                 IF i < final THEN 9 - f[i] ELSE IF i = final THEN 10 - f[i] ELSE 0]
    IN SubSeq(d, 1, Len(f))

\* The precision of a double (bits of the significand), the bit length at which
\* a double overflows, and the exponent of half the least positive double.
SignificandBits == 53
OverflowBits == 1025
HalfMinExponent == 1075

\* The largest number of integer digits a finite double has, and the number of
\* zeros after the point from which a literal is below half the least double.
MaxIntegerDigits == 309
UnderflowZeros == 324

NaN == [nan |-> TRUE, neg |-> FALSE, infinite |-> FALSE, fraction |-> FALSE, digits |-> <<>>]

Infinity == [nan |-> FALSE, neg |-> FALSE, infinite |-> TRUE, fraction |-> FALSE, digits |-> <<>>]

\* A finite double: an integer (digits), or a non-integer (fraction) whose
\* integer part is digits.
Finite(int, frac) ==
    [nan |-> FALSE, neg |-> FALSE, infinite |-> FALSE, fraction |-> frac, digits |-> Strip(int)]

\* The last s + 1 bits of m, seen from above == m \div 2^s: the bit shifted out
\* last (round) and whether anything non-zero lies below it (sticky).
RoundParts(above, m, s, sticky) ==
    [q |-> Halve(above), round |-> Odd(above), sticky |-> sticky \/ ShiftLeft(above, s) /= m]

\* m shifted right by s >= 1 bits, with its round and sticky bits.
ShiftRight(m, s, sticky) == RoundParts(HalveTimes(m, s - 1), Strip(m), s - 1, sticky)

\* An integer of more bits than a double holds is beyond every double.
Overflowing(q) == IF BitLength(q) >= OverflowBits THEN Infinity ELSE Finite(q, FALSE)

\* The double nearest to a number of more than 53 bits, from its first 53 bits
\* r.q and the s bits shifted out: round to nearest, a tie to the even q.
RoundLarge(r, s) ==
    Overflowing(ShiftLeft(IF r.round /\ (r.sticky \/ Odd(r.q)) THEN AddSmall(r.q, 1) ELSE r.q,
                          s))

\* The double nearest to int + 0.frac, for int of fewer than 53 bits and a
\* non-zero frac: the neighbouring integer when it lies within half a unit in
\* the last place, 2^-half (a tie goes to the even significand), else a
\* non-integer.
NearInteger(int, frac, half) ==
    IF half <= SignificandBits /\ AtMostTwoToMinus(frac, half) THEN Finite(int, FALSE)
    ELSE IF AtMostTwoToMinus(OneMinus(frac), half) THEN Finite(AddSmall(int, 1), FALSE)
    ELSE Finite(int, TRUE)

\* The double nearest to int + 0.frac, int having the given number of bits.
RoundBits(int, frac, bits) ==
    IF bits > SignificandBits
    THEN RoundLarge(ShiftRight(int, bits - SignificandBits, \E i \in 1..Len(frac) : frac[i] /= 0),
                    bits - SignificandBits)
    ELSE IF \A i \in 1..Len(frac) : frac[i] = 0 THEN Finite(int, FALSE)
    ELSE IF bits = SignificandBits
    THEN Finite(AddSmall(int, IF FracLeq(<<5>>, frac) /\ (Odd(int) \/ ~FracLeq(frac, <<5>>))
                              THEN 1 ELSE 0), FALSE)
    ELSE IF bits = 0 /\ AtMostTwoToMinus(frac, HalfMinExponent) THEN Finite(<<>>, FALSE)
    ELSE NearInteger(int, frac, SignificandBits + 1 - bits)

\* The double nearest to int + 0.frac.
RoundToDouble(int, frac) == RoundBits(int, frac, BitLength(int))

\* The digits before and after the point of d * 10^k, d without leading zeros.
IntegerPart(d, k) ==
    IF Len(d) + k <= 0 THEN <<>>
    ELSE IF k >= 0 THEN d \o Zeros(k)
    ELSE SubSeq(d, 1, Len(d) + k)

FractionPart(d, k) ==
    IF Len(d) + k <= 0 THEN Zeros(0 - (Len(d) + k)) \o d
    ELSE IF k >= 0 THEN <<>>
    ELSE SubSeq(d, Len(d) + k + 1, Len(d))

\* The double nearest to d * 10^k, d without leading zeros.
Scaled(d, k) ==
    IF d = <<>> THEN Finite(<<>>, FALSE)
    ELSE IF Len(d) + k > MaxIntegerDigits THEN Infinity
    ELSE IF Len(d) + k <= 0 - UnderflowZeros THEN Finite(<<>>, FALSE)
    ELSE RoundToDouble(IntegerPart(d, k), FractionPart(d, k))

AllDigits(lit) == \A i \in 1..Len(lit) : IsDigit(lit[i])

DigitsOf(lit) == SubSeq([i \in 1..Len(lit) |-> DigitValue(lit[i])], 1, Len(lit))

\* The value of a short digit sequence as an integer.
RECURSIVE SmallValue(_)
SmallValue(m) ==
    IF m = <<>> THEN 0 ELSE 10 * SmallValue(SubSeq(m, 1, Len(m) - 1)) + m[Len(m)]

\* The digits of a natural number, none for 0.
RECURSIVE NatDigits(_)
NatDigits(n) == IF n = 0 THEN <<>> ELSE Append(NatDigits(n \div 10), n % 10)

\* m > n, for m a digit sequence without leading zeros and n a natural number.
Exceeds(m, n) ==
    \/ Len(m) > Len(NatDigits(n))
    \/ Len(m) = Len(NatDigits(n)) /\ LexLess(NatDigits(n), m)

\* The literal without its sign.
Unsigned(lit) == IF lit /= <<>> /\ Head(lit) \in {"+", "-"} THEN Tail(lit) ELSE lit

\* ExponentPart after the e: an optional sign and one digit or more.
ExponentValid(lit) == Unsigned(lit) /= <<>> /\ AllDigits(Unsigned(lit))

\* The size of the exponent, of any length, as digits without leading zeros.
ExponentDigits(lit) == Strip(DigitsOf(Unsigned(lit)))

\* The double nearest to d * 10^(e - places) or, with minus, to d * 10^(-e - places),
\* for d without leading zeros and e the exponent's digits. The exponent is
\* applied whole. Where e is above the digits of d and the places together with
\* the reach of the doubles, the result is beyond every double whatever the
\* mantissa (infinite, or nearest to zero); e is a small number otherwise.
Exponentiated(d, places, e, minus) ==
    IF d = <<>> THEN Finite(<<>>, FALSE)
    ELSE IF Exceeds(e, Len(d) + places + MaxIntegerDigits + UnderflowZeros)
    THEN IF minus THEN Finite(<<>>, FALSE) ELSE Infinity
    ELSE Scaled(d, (IF minus THEN 0 - SmallValue(e) ELSE SmallValue(e)) - places)

\* The place of the first of the given characters in lit, or Len(lit) + 1.
FirstIndex(lit, chars) ==
    IF \A i \in 1..Len(lit) : lit[i] \notin chars THEN Len(lit) + 1
    ELSE CHOOSE i \in 1..Len(lit) :
             lit[i] \in chars /\ \A j \in 1..(i - 1) : lit[j] \notin chars

\* Digits before the point, digits after it and an exponent: at least one digit
\* before the exponent.
Decimal(whole, frac, expo) ==
    IF AllDigits(whole) /\ AllDigits(frac) /\ Len(whole) + Len(frac) > 0 /\ ExponentValid(expo)
    THEN Exponentiated(Strip(DigitsOf(whole \o frac)), Len(frac),
                       ExponentDigits(expo), Head(expo) = "-")
    ELSE NaN

\* A mantissa, split at its point, and an exponent.
Scientific(mant, expo) ==
    Decimal(SubSeq(mant, 1, FirstIndex(mant, {"."}) - 1),
            SubSeq(mant, FirstIndex(mant, {"."}) + 1, Len(mant)),
            expo)

\* StrUnsignedDecimalLiteral: Infinity, or digits with an optional point and an
\* optional exponent (none counts as e0).
UnsignedNumber(lit) ==
    IF lit = <<"I", "n", "f", "i", "n", "i", "t", "y">> THEN Infinity
    ELSE Scientific(SubSeq(lit, 1, FirstIndex(lit, {"e", "E"}) - 1),
                    IF FirstIndex(lit, {"e", "E"}) > Len(lit) THEN <<"0">>
                    ELSE SubSeq(lit, FirstIndex(lit, {"e", "E"}) + 1, Len(lit)))

\* The digits of each radix of a NonDecimalIntegerLiteral, by value.
RadixDigits(bits) ==
    CASE bits = 1 -> <<{"0"}, {"1"}>>
      [] bits = 3 -> <<{"0"}, {"1"}, {"2"}, {"3"}, {"4"}, {"5"}, {"6"}, {"7"}>>
      [] bits = 4 -> <<{"0"}, {"1"}, {"2"}, {"3"}, {"4"}, {"5"}, {"6"}, {"7"}, {"8"}, {"9"},
                       {"a", "A"}, {"b", "B"}, {"c", "C"}, {"d", "D"}, {"e", "E"}, {"f", "F"}>>

\* The value of a digit of radix 2^bits.
RadixDigit(c, bits) ==
    (CHOOSE v \in 1..Len(RadixDigits(bits)) : c \in RadixDigits(bits)[v]) - 1

\* a + b, digit by digit: a place takes a carry when a place to its right sums
\* to 10 or more and every place between the two sums to 9.
Add(a, b) ==
    LET n == 1 + (IF Len(a) > Len(b) THEN Len(a) ELSE Len(b))
        s == SubSeq([i \in 1..n |-> PadLeft(a, n)[i] + PadLeft(b, n)[i]], 1, n)
        d == [i \in 1..n |->
                 (s[i] + (IF \E j \in (i + 1)..n :
                                s[j] >= 10 /\ \A k \in (i + 1)..(j - 1) : s[k] = 9
                          THEN 1 ELSE 0)) % 10]
    IN Strip(SubSeq(d, 1, n))

\* The value of a digit sequence in radix 2^bits: the value of its first half,
\* shifted by the bits of the second half, and the value of the second half.
RECURSIVE RadixValue(_, _)
RadixValue(lit, bits) ==
    IF lit = <<>> THEN <<>>
    ELSE IF Len(lit) = 1 THEN NatDigits(RadixDigit(lit[1], bits))
    ELSE Add(ShiftLeft(RadixValue(SubSeq(lit, 1, Len(lit) \div 2), bits),
                       bits * (Len(lit) - (Len(lit) \div 2))),
             RadixValue(SubSeq(lit, (Len(lit) \div 2) + 1, Len(lit)), bits))

\* The digits of a literal from its first digit other than 0.
Significant(ds) ==
    IF \A i \in 1..Len(ds) : ds[i] = "0" THEN <<>>
    ELSE SubSeq(ds, CHOOSE i \in 1..Len(ds) :
                        ds[i] /= "0" /\ \A j \in 1..(i - 1) : ds[j] = "0",
                Len(ds))

\* The double nearest to the value of digits ds of radix 2^bits, the first one
\* other than 0: with n digits the value is 2^(bits * (n - 1)) or more, which is
\* beyond every double from 2^1024 on.
RadixToDouble(ds, bits) ==
    IF bits * (Len(ds) - 1) >= OverflowBits - 1 THEN Infinity
    ELSE RoundToDouble(RadixValue(ds, bits), <<>>)

\* The bits per digit of the literal's radix prefix (0x, 0o, 0b), or 0 without one.
RadixBits(lit) ==
    IF Len(lit) < 2 \/ lit[1] /= "0" THEN 0
    ELSE CASE lit[2] \in {"x", "X"} -> 4
           [] lit[2] \in {"o", "O"} -> 3
           [] lit[2] \in {"b", "B"} -> 1
           [] OTHER -> 0

\* One digit or more of radix 2^bits.
RadixLiteral(ds, bits) ==
    IF ds /= <<>> /\ \A i \in 1..Len(ds) : \E v \in 1..Len(RadixDigits(bits)) :
                                              ds[i] \in RadixDigits(bits)[v]
    THEN RadixToDouble(Significant(ds), bits)
    ELSE NaN

\* NonDecimalIntegerLiteral: the prefix and the digits of its radix.
NonDecimalNumber(lit) == RadixLiteral(SubSeq(lit, 3, Len(lit)), RadixBits(lit))

\* The number u with the sign of the literal.
Signed(u, minus) == [u EXCEPT !.neg = minus /\ ~u.nan]

\* StringToNumber of a trimmed string: the empty string is 0; a sign goes with a
\* decimal literal only.
StringToNumber(lit) ==
    IF lit = <<>> THEN Finite(<<>>, FALSE)
    ELSE IF RadixBits(lit) > 0 THEN NonDecimalNumber(lit)
    ELSE Signed(UnsignedNumber(Unsigned(lit)), Head(lit) = "-")

\* Number(raw): undefined is NaN, white space is trimmed.
Number(raw) == IF raw = UNDEFINED THEN NaN ELSE StringToNumber(trim(raw))

\* Number of each hit limit the user types, worked out once.
TypedNumbers == [raw \in HitLimitInputs |-> Number(raw)]

\* z.coerce.number: Number(raw), looked up for a hit limit the user types.
Coerced(raw) ==
    IF raw = UNDEFINED THEN NaN
    ELSE IF raw \in HitLimitInputs THEN TypedNumbers[raw]
    ELSE Number(raw)

\* Number.isInteger(n) and n > 0
PositiveInteger(n) == ~n.nan /\ ~n.infinite /\ ~n.fraction /\ ~n.neg /\ n.digits /= <<>>

\* z.coerce.number().int().positive(): the number the value coerces to is an
\* integer above zero.
HitLimitValid(raw) == PositiveInteger(Coerced(raw))

\* z.date().refine((date) => date > new Date()), with new Date() reading clock value now.
DateTimeValid(date, now) == date /= NoDate /\ Later(date, DateOf(now))

\* z.string().min(1)
SecretTextValid(text) == text /= NULL /\ text /= ""

\* A FormSchema whose dateTime accepts any Date.
InvalidFieldsAnyDate(f, now) ==
    (IF SecretTextValid(f.secretText) THEN {} ELSE {"secretText"})
    \cup (IF f.dateTime /= NoDate THEN {} ELSE {"dateTime"})
    \cup (IF HitLimitValid(f.hitLimit) THEN {} ELSE {"hitLimit"})

\* The fields FormSchema rejects (password and secretUrl are optional strings).
InvalidFields(f, now) ==
    (IF SecretTextValid(f.secretText) THEN {} ELSE {"secretText"})
    \cup (IF DateTimeValid(f.dateTime, now) THEN {} ELSE {"dateTime"})
    \cup (IF HitLimitValid(f.hitLimit) THEN {} ELSE {"hitLimit"})

\* Math.round(x / 1000) for an integer x: the nearest integer, halves rounded up.
MathRoundSeconds(x) == (2 * x + MsPerSecond) \div (2 * MsPerSecond)

\* ttl = Math.round((data.dateTime.getTime() - Date.now()) / 1000); the whole days
\* between the two are a whole number of seconds.
Ttl(date, now) ==
    (date[1] - DateOf(now)[1]) * SecondsPerDay + MathRoundSeconds(date[2] - DateOf(now)[2])

\* The POST createSecret sends for validated data, Date.now() reading clock value now.
PostRequest(f, now) ==
    [method |-> "POST", url |-> ApiSecretsUrl,
     body |-> [secret |-> f.secretText,
               hitLimit |-> Coerced(f.hitLimit).digits,
               ttl |-> Ttl(f.dateTime, now),
               password |-> IF Truthy(f.password) THEN f.password ELSE NULL]]

\* --- responses to the POST
MainStatuses == { 201, 500 }

StatusText(status) ==
    CASE status = 201 -> "Created"
      [] status = 500 -> "Internal Server Error"

\* JSON objects, as functions from their field names.
UrlObject == [k \in {"url"} |-> SecretUrl]
MessageObject == [k \in {"message"} |-> "Invalid ttl"]
EmptyObject == [k \in {} |-> ""]

MainBodies ==
    { [kind |-> "json", obj |-> UrlObject],
      [kind |-> "json", obj |-> MessageObject],
      [kind |-> "json", obj |-> EmptyObject],
      [kind |-> "text", text |-> "Internal error"] }

\* What a pending POST settles with: a response, or fetch() rejecting.
MainOutcomes ==
    [kind : {"response"}, status : MainStatuses, body : MainBodies]
    \cup { [kind |-> "fetch_throws"] }

\* response.ok
ResponseOk(status) == status \in 200..299

\* obj.field of a parsed JSON object (undefined when absent).
Field(obj, name) == IF name \in DOMAIN obj THEN obj[name] ELSE NULL

\* --- notifications (toast)
NoToast == [title |-> "none", status |-> 0, description |-> NULL, variant |-> "none"]

CreatedCopiedToast(url) ==
    [title |-> "Link to your secret created and copied to clipboard", status |-> 0,
     description |-> url, variant |-> "default"]

CreatedToast(url) ==
    [title |-> "Link to your secret created", status |-> 0,
     description |-> url, variant |-> "default"]

\* title `Error ${response.status}`, description errorData.message || response.statusText
ErrorToast(status, obj) ==
    [title |-> "Error", status |-> status,
     description |-> IF Truthy(Field(obj, "message")) THEN Field(obj, "message")
                     ELSE StatusText(status),
     variant |-> "destructive"]

\* The notification of the catch block.
UnexpectedErrorToast ==
    [title |-> "Unexpected error", status |-> 0, description |-> "Please try again later.",
     variant |-> "destructive"]

\* A createSecret whose catch block also resets the form.
AfterPostResetsOnCatch(o, clipboard) ==
    IF o.kind = "fetch_throws" \/ o.body.kind /= "json"
    THEN [threw |-> TRUE, reset |-> TRUE, url |-> NULL, write |-> FALSE,
          toast |-> UnexpectedErrorToast]
    ELSE IF ResponseOk(o.status)
    THEN LET url == Field(o.body.obj, "url") IN
         [threw |-> FALSE, reset |-> TRUE, url |-> url, write |-> clipboard,
          toast |-> IF clipboard THEN NoToast ELSE CreatedToast(url)]
    ELSE [threw |-> FALSE, reset |-> FALSE, url |-> NULL, write |-> FALSE,
          toast |-> ErrorToast(o.status, o.body.obj)]

\* createSecret from the settling of its POST up to its next await or its end:
\* whether it threw into the catch block, whether reset({ secretUrl: url }) ran and
\* with which url, whether a clipboard write was started, and the notification shown.
AfterPost(o, clipboard) ==
    IF o.kind = "fetch_throws" \/ o.body.kind /= "json"
    THEN [threw |-> TRUE, reset |-> FALSE, url |-> NULL, write |-> FALSE,
          toast |-> UnexpectedErrorToast]
    ELSE IF ResponseOk(o.status)
    THEN LET url == Field(o.body.obj, "url") IN
         [threw |-> FALSE, reset |-> TRUE, url |-> url, write |-> clipboard,
          toast |-> IF clipboard THEN NoToast ELSE CreatedToast(url)]
    ELSE [threw |-> FALSE, reset |-> FALSE, url |-> NULL, write |-> FALSE,
          toast |-> ErrorToast(o.status, o.body.obj)]

\* createSecret after await navigator.clipboard.writeText(url): the notification shown.
AfterClipboard(resolved, url) ==
    IF resolved THEN CreatedCopiedToast(url) ELSE UnexpectedErrorToast

NoPost == [method |-> "none"]

\* The value of lastAttempt before any submission of the creation form.
NoAttempt == [form |-> DefaultValues, at |-> 0, refused |-> {}]

NoCall == [call |-> 0, outcome |-> [kind |-> "none"]]

\* The creation view before anything has been typed or submitted.
MainInitial ==
    /\ mform = DefaultValues
    /\ fieldErrors = {}
    /\ validatedAt = 1000
    /\ submittedAt = 1000
    /\ submissions = 0
    /\ posts = 0
    /\ lastPost = NoPost
    /\ lastAttempt = NoAttempt
    /\ calls = <<>>
    /\ lastDone = NoCall
    /\ toasts = 0
    /\ lastToast = NoToast
    /\ clipboardWrites = 0
    /\ copies = <<>>
    /\ events = 0

\* ------------------------------------------------------------------ operations
Init ==
    /\ state = initialState
    /\ code \in Codes
    /\ mounted = FALSE
    /\ dict \in Dictionaries
    /\ passwordField = <<>>
    /\ isSubmitted = FALSE
    /\ formError = NULL
    /\ requests = <<>>
    /\ pending = {}
    /\ applied = <<>>
    /\ last = NoOutcome
    /\ escaped = FALSE
    /\ secretCode = NoCode
    /\ MainInitial
    /\ clipboardPresent = TRUE

\* The value encodeURIComponent throws on a malformed string.
URIError == [isError |-> TRUE, message |-> "URI malformed"]

\* fetchSecret that skips a (code, password) pair it has already requested.
fetchSecretOncePerPair(c, password, cause) ==
    IF \E k \in 1..Len(requests) : requests[k].code = c /\ requests[k].password = password
    THEN UNCHANGED << state, requests, pending, last >>
    ELSE /\ Len(requests) < MaxRequests
         /\ state' = reducer(state, [type |-> "SET_LOADING", payload |-> TRUE])
         /\ requests' = Append(requests,
                               [method |-> "GET", url |-> RequestUrl(c, password),
                                code |-> c, password |-> password, cause |-> cause])
         /\ pending' = pending \cup {Len(requests) + 1}
         /\ UNCHANGED last

\* fetchSecret(password) for code c, up to its first await: SET_LOADING, then either
\* the GET is issued, or encodeURIComponent throws and the catch block dispatches.
fetchSecret(c, password, cause) ==
    LET loading == reducer(state, [type |-> "SET_LOADING", payload |-> TRUE]) IN
    IF TruthySeq(password) /\ URIMalformed(password)
    THEN /\ state' = reducer(loading, [type |-> "FETCH_ERROR", payload |-> CatchPayload(URIError)])
         /\ last' = [req |-> 0, outcome |-> [kind |-> "encode_throws", thrown |-> URIError]]
         /\ UNCHANGED << requests, pending >>
    ELSE /\ Len(requests) < MaxRequests
         /\ state' = loading
         /\ requests' = Append(requests,
                               [method |-> "GET", url |-> RequestUrl(c, password),
                                code |-> c, password |-> password, cause |-> cause])
         /\ pending' = pending \cup {Len(requests) + 1}
         /\ UNCHANGED last

\* useEffect(() => { fetchSecret(); }, [code]) on mount.
Mount ==
    /\ ~mounted
    /\ mounted' = TRUE
    /\ fetchSecret(code, UNDEFINED, "mount")
    /\ UNCHANGED << code, dict, passwordField, isSubmitted, formError, applied, escaped,
                    secretCode, mainVars >>

\* Route navigation to another code while mounted: the effect runs again.
ChangeCode ==
    /\ mounted
    /\ \E c \in Codes \ {code} :
          /\ code' = c
          /\ fetchSecret(c, UNDEFINED, "code")
    /\ UNCHANGED << mounted, dict, passwordField, isSubmitted, formError, applied, escaped,
                    secretCode, mainVars >>

\* The user changes the password field (FormField password, onChange), which can
\* be done only while the form is rendered.  Before the first submission nothing
\* is validated (mode 'onSubmit'); after it the resolver validates every change
\* (reValidateMode 'onChange', the default) and sets or clears the field's message.
TypePassword ==
    /\ mounted
    /\ Render(state).form
    /\ \E p \in Passwords \ {passwordField} :
          /\ passwordField' = p
          /\ formError' = IF ~isSubmitted THEN formError
                          ELSE IF FormSchemaValid(p) THEN NULL
                          ELSE t("Password is required")
    /\ UNCHANGED << state, code, mounted, dict, isSubmitted, requests, pending, applied,
                    last, escaped, secretCode, mainVars >>

\* handleSubmit(onSubmit): the resolver validates the value the password field
\* holds, then onSubmit calls fetchSecret(data.password), or the field's message
\* is set.
Submit ==
    /\ UNCHANGED << code, mounted, dict, passwordField, applied, escaped, secretCode,
                    mainVars >>
    /\ isSubmitted' = TRUE
    /\ IF FormSchemaValid(passwordField)
       THEN /\ formError' = NULL
            /\ fetchSecret(code, passwordField, "submit")
       ELSE /\ formError' = t("Password is required")
            /\ UNCHANGED << state, requests, pending, last >>

\* The password form is submitted; it can be only while it is rendered.
SubmitPassword ==
    /\ mounted
    /\ Render(state).form
    /\ Submit

\* Settle with a request generation check: the outcome of a request that is not
\* the latest one issued is dropped.
SettleFenced ==
    \E i \in pending, o \in Outcomes :
        /\ pending' = pending \ {i}
        /\ applied' = Append(applied, i)
        /\ last' = [req |-> i, outcome |-> o]
        /\ state' = IF i = Len(requests) THEN reducer(state, SettledAction(o)) ELSE state
        /\ secretCode' = IF i = Len(requests) /\ SettledAction(o).type = "FETCH_SUCCESS"
                         THEN requests[i].code ELSE secretCode
        /\ UNCHANGED << code, mounted, dict, passwordField, isSubmitted, formError, requests,
                        escaped, mainVars >>

\* Settle with an automatic retry: a GET that fails (a status other than 200 and
\* 401, or a thrown value) is issued again.
SettleRetries ==
    \E i \in pending, o \in Outcomes :
        LET failed == o.kind /= "response" \/ o.status \notin {200, 401}
            retry == failed /\ Len(requests) < MaxRequests
        IN
        /\ pending' = IF retry THEN (pending \ {i}) \cup {Len(requests) + 1} ELSE pending \ {i}
        /\ requests' = IF retry
                       THEN Append(requests, [requests[i] EXCEPT !.cause = "retry"])
                       ELSE requests
        /\ applied' = Append(applied, i)
        /\ last' = [req |-> i, outcome |-> o]
        /\ state' = reducer(state, SettledAction(o))
        /\ secretCode' = IF SettledAction(o).type = "FETCH_SUCCESS"
                         THEN requests[i].code ELSE secretCode
        /\ UNCHANGED << code, mounted, dict, passwordField, isSubmitted, formError, escaped,
                        mainVars >>

\* A pending GET settles and fetchSecret resumes after its awaits.
Settle ==
    \E i \in pending, o \in Outcomes :
        /\ pending' = pending \ {i}
        /\ applied' = Append(applied, i)
        /\ last' = [req |-> i, outcome |-> o]
        /\ IF o.kind = "response" \/ Caught(o.thrown)
           THEN /\ state' = reducer(state, SettledAction(o))
                /\ secretCode' = IF SettledAction(o).type = "FETCH_SUCCESS"
                                 THEN requests[i].code ELSE secretCode
                /\ escaped' = escaped
           ELSE /\ state' = state
                /\ secretCode' = secretCode
                /\ escaped' = TRUE
        /\ UNCHANGED << code, mounted, dict, passwordField, isSubmitted, formError, requests,
                        mainVars >>

\* The language select of the header: i18n.changeLanguage installs the other
\* translation table; nothing held in state is translated again.
ChangeLanguage ==
    /\ \E d \in Dictionaries \ {dict} : dict' = d
    /\ UNCHANGED << state, code, mounted, passwordField, isSubmitted, formError, requests,
                    pending, applied, last, escaped, secretCode, mainVars >>

Next == Mount \/ ChangeCode \/ TypePassword \/ SubmitPassword \/ Settle \/ ChangeLanguage

Spec == Init /\ [][Next]_vars

\* The retrieval view opened on code A without translations (neither the code's
\* name nor the translation table bears on when the view is loading).
InitLive == Init /\ code = <<"A">> /\ dict = NoTranslations

\* The retrieval view when every request issued eventually resolves or rejects.
SpecLive == InitLive /\ [][Next]_vars /\ WF_vars(Settle)

\* ------------------------------------------------------------------ creation view: operations
InitMain ==
    /\ state = initialState
    /\ code = <<"A">>
    /\ mounted = FALSE
    /\ dict = NoTranslations
    /\ passwordField = <<>>
    /\ isSubmitted = FALSE
    /\ formError = NULL
    /\ requests = <<>>
    /\ pending = {}
    /\ applied = <<>>
    /\ last = NoOutcome
    /\ escaped = FALSE
    /\ secretCode = NoCode
    /\ MainInitial
    /\ clipboardPresent \in BOOLEAN

\* The latest clock value read so far; the clock never runs backwards.
Clock == IF validatedAt > submittedAt THEN validatedAt ELSE submittedAt

\* The form validates on change (mode 'onChange'): the error of the field that
\* changed is set or cleared, the errors of the other fields stay.
Revalidated(name, valid) == (fieldErrors \ {name}) \cup (IF valid THEN {} ELSE {name})

\* One more thing done by the user: a change of a field, a submission, a click
\* on a copy button.
Acted == events < MaxEvents /\ events' = events + 1

\* The variables an edit of the form leaves alone.
editFrame ==
    << clipboardPresent, submittedAt, submissions, posts, lastPost, lastAttempt, calls,
       lastDone, toasts, lastToast, clipboardWrites, copies, secretVars >>

\* The user changes the text of the secret (FormField secretText, onChange).
EditSecretText ==
    /\ \E v \in SecretTexts :
          /\ v /= mform.secretText
          /\ mform' = [mform EXCEPT !.secretText = v]
          /\ fieldErrors' = Revalidated("secretText", SecretTextValid(v))
    /\ Acted
    /\ UNCHANGED << validatedAt, editFrame >>

\* The user changes the hit limit, a text input (FormField hitLimit, onChange).
EditHitLimit ==
    /\ \E v \in HitLimitInputs :
          /\ v /= mform.hitLimit
          /\ mform' = [mform EXCEPT !.hitLimit = v]
          /\ fieldErrors' = Revalidated("hitLimit", HitLimitValid(v))
    /\ Acted
    /\ UNCHANGED << validatedAt, editFrame >>

\* The user changes the password (FormField password, onChange); the schema
\* takes every string.
EditPassword ==
    /\ \E v \in PasswordInputs :
          /\ v /= mform.password
          /\ mform' = [mform EXCEPT !.password = v]
          /\ fieldErrors' = Revalidated("password", TRUE)
    /\ Acted
    /\ UNCHANGED << validatedAt, editFrame >>

\* Calendar onSelect: the user picks a day from today on that is not the selected
\* one; the form holds that day's midnight and validates it, the clock reading now.
SelectDate ==
    /\ \E day \in CalendarDays, now \in Times :
          /\ Clock <= now
          /\ IF mform.dateTime = NoDate THEN TRUE ELSE mform.dateTime[1] /= day
          /\ mform' = [mform EXCEPT !.dateTime = << day, 0 >>]
          /\ validatedAt' = now
          /\ fieldErrors' = Revalidated("dateTime", DateTimeValid(<< day, 0 >>, now))
    /\ Acted
    /\ UNCHANGED editFrame

\* updateDateTime(type, value): the hour or the minute of the expiration, or of
\* new Date() when the form holds none (the clock reads now), is set; setValue
\* with shouldValidate has the resolver validate the result afterwards, reading
\* the clock again (nowV).
updateDateTime(type, value, now, nowV) ==
    LET currentDate == IF mform.dateTime /= NoDate THEN mform.dateTime ELSE DateOf(now)
        updatedDate == IF type = "hour" THEN SetHours(currentDate, value)
                       ELSE SetMinutes(currentDate, value)
    IN /\ Clock <= now
       /\ now <= nowV
       /\ mform' = [mform EXCEPT !.dateTime = updatedDate]
       /\ validatedAt' = nowV
       /\ fieldErrors' = Revalidated("dateTime", DateTimeValid(updatedDate, nowV))
       /\ Acted
       /\ UNCHANGED editFrame

\* The user clicks an hour button or a minute button of the expiration picker.
UpdateDateTime ==
    \E now \in Times, nowV \in Times :
        \/ \E hour \in PickedHours \cap HOURS : updateDateTime("hour", hour, now, nowV)
        \/ \E minute \in PickedMinutes \cap MINUTES :
              updateDateTime("minute", minute, now, nowV)

\* handleSubmit(createSecret): the resolver validates the values, reading the clock
\* (nowV); when they are valid createSecret runs up to its fetch, reading the clock
\* again (nowS) for the ttl.
SubmitForm ==
    /\ \E nowV \in Times :
          /\ Clock <= nowV
          /\ validatedAt' = nowV
          /\ fieldErrors' = InvalidFields(mform, nowV)
          /\ lastAttempt' = [form |-> mform, at |-> nowV, refused |-> fieldErrors']
          /\ IF fieldErrors' = {}
             THEN \E nowS \in Times :
                     /\ nowV <= nowS
                     /\ submittedAt' = nowS
                     /\ submissions' = submissions + 1
                     /\ posts' = posts + 1
                     /\ lastPost' = PostRequest(mform, nowS)
                     /\ calls' = Append(calls, [phase |-> "pending", url |-> NULL])
             ELSE UNCHANGED << submittedAt, submissions, posts, lastPost, calls >>
    /\ Acted
    /\ UNCHANGED << mform, clipboardPresent, lastDone, toasts, lastToast, clipboardWrites >>
    /\ UNCHANGED << copies, secretVars >>

\* A createSecret that sends its POST again when the first one fails.
PostSettlesRetries(i, o) ==
    LET r == AfterPost(o, clipboardPresent)
        failed == o.kind = "fetch_throws" \/ ~ResponseOk(o.status)
    IN
    /\ calls[i].phase = "pending"
    /\ mform' = IF r.reset THEN ResetValues(r.url) ELSE mform
    /\ fieldErrors' = IF r.reset THEN {} ELSE fieldErrors
    /\ IF failed /\ posts = submissions
       THEN /\ posts' = posts + 1
            /\ calls' = Append([calls EXCEPT ![i] = [phase |-> "done", url |-> NULL]],
                               [phase |-> "pending", url |-> NULL])
            /\ lastDone' = [call |-> i, outcome |-> o]
            /\ UNCHANGED << toasts, lastToast, clipboardWrites >>
       ELSE IF r.write
       THEN /\ calls' = [calls EXCEPT ![i] = [phase |-> "copying", url |-> r.url]]
            /\ clipboardWrites' = clipboardWrites + 1
            /\ UNCHANGED << posts, lastDone, toasts, lastToast >>
       ELSE /\ calls' = [calls EXCEPT ![i] = [phase |-> "done", url |-> NULL]]
            /\ lastDone' = [call |-> i, outcome |-> o]
            /\ toasts' = toasts + 1
            /\ lastToast' = r.toast
            /\ UNCHANGED << posts, clipboardWrites >>
    /\ UNCHANGED << clipboardPresent, validatedAt, submittedAt, submissions, lastPost >>
    /\ UNCHANGED << lastAttempt, copies, events, secretVars >>

\* The POST of call i settles with outcome o and createSecret resumes.
PostSettles(i, o) ==
    LET r == AfterPost(o, clipboardPresent) IN
    /\ calls[i].phase = "pending"
    /\ mform' = IF r.reset THEN ResetValues(r.url) ELSE mform
    /\ fieldErrors' = IF r.reset THEN {} ELSE fieldErrors
    /\ IF r.write
       THEN /\ calls' = [calls EXCEPT ![i] = [phase |-> "copying", url |-> r.url]]
            /\ clipboardWrites' = clipboardWrites + 1
            /\ UNCHANGED << lastDone, toasts, lastToast >>
       ELSE /\ calls' = [calls EXCEPT ![i] = [phase |-> "done", url |-> NULL]]
            /\ lastDone' = [call |-> i, outcome |-> o]
            /\ toasts' = toasts + 1
            /\ lastToast' = r.toast
            /\ UNCHANGED clipboardWrites
    /\ UNCHANGED << clipboardPresent, validatedAt, submittedAt, submissions,
                    posts, lastPost >>
    /\ UNCHANGED << lastAttempt, copies, events, secretVars >>

PostSettle == \E i \in 1..Len(calls), o \in MainOutcomes : PostSettles(i, o)

\* navigator.clipboard.writeText(url) of call i resolves or rejects.
ClipboardSettles(i, resolved) ==
    /\ calls[i].phase = "copying"
    /\ calls' = [calls EXCEPT ![i] = [phase |-> "done", url |-> NULL]]
    /\ lastDone' = [call |-> i,
                    outcome |-> [kind |-> "clipboard", resolved |-> resolved,
                                 url |-> calls[i].url]]
    /\ toasts' = toasts + 1
    /\ lastToast' = AfterClipboard(resolved, calls[i].url)
    /\ UNCHANGED << mform, fieldErrors, clipboardPresent, validatedAt, submittedAt,
                    submissions, posts, lastPost, clipboardWrites >>
    /\ UNCHANGED << lastAttempt, copies, events, secretVars >>

ClipboardSettle == \E i \in 1..Len(calls), resolved \in BOOLEAN : ClipboardSettles(i, resolved)

\* ------------------------------------------------------------------ copy buttons
\* copyToClipboard's notification (creation view).
LinkCopiedToast(url) ==
    [title |-> "Link copied to clipboard", status |-> 0, description |-> url,
     variant |-> "default"]

\* handleCopyToClipboard's notification after the write (retrieval view).
SecretCopiedToast(text) ==
    [title |-> t("Copied to clipboard"), status |-> 0, description |-> text,
     variant |-> "default"]

\* The notification of handleCopyToClipboard's catch block.
CopyFailedToast ==
    [title |-> t("Error"), status |-> 0,
     description |-> t("Failed to copy secret to clipboard"), variant |-> "destructive"]

\* The values the user submitted for the secret created before the copy.
CreatedValues ==
    [secretText |-> "s3cret", dateTime |-> << YearDays, 0 >>, hitLimit |-> <<"1">>,
     password |-> "", secretUrl |-> ""]

\* The response that created it.
CreatedOutcome ==
    [kind |-> "response", status |-> 201, body |-> [kind |-> "json", obj |-> UrlObject]]

\* Both views once they can offer a copy button: the retrieval view after its mount
\* GET has settled (with any outcome), the creation view after one secret has been
\* created at clock value 1000 and its url received.
InitCopy ==
    /\ code \in Codes
    /\ dict \in Dictionaries
    /\ mounted = TRUE
    /\ passwordField = <<>>
    /\ isSubmitted = FALSE
    /\ formError = NULL
    /\ requests = << [method |-> "GET", url |-> RequestUrl(code, UNDEFINED),
                      code |-> code, password |-> UNDEFINED, cause |-> "mount"] >>
    /\ pending = {}
    /\ applied = << 1 >>
    /\ escaped = FALSE
    /\ \E o \in Outcomes :
          /\ last = [req |-> 1, outcome |-> o]
          /\ state = reducer(reducer(initialState, [type |-> "SET_LOADING", payload |-> TRUE]),
                             SettledAction(o))
          /\ secretCode = IF SettledAction(o).type = "FETCH_SUCCESS" THEN code ELSE NoCode
    /\ clipboardPresent \in BOOLEAN
    /\ mform = ResetValues(SecretUrl)
    /\ fieldErrors = {}
    /\ validatedAt = 1000
    /\ submittedAt = 1000
    /\ submissions = 1
    /\ posts = 1
    /\ lastPost = PostRequest(CreatedValues, 1000)
    /\ lastAttempt = [form |-> CreatedValues, at |-> 1000, refused |-> {}]
    /\ calls = << [phase |-> "done", url |-> NULL] >>
    /\ lastDone = IF clipboardPresent
                  THEN [call |-> 1, outcome |-> [kind |-> "clipboard", resolved |-> TRUE,
                                                 url |-> SecretUrl]]
                  ELSE [call |-> 1, outcome |-> CreatedOutcome]
    /\ toasts = 1
    /\ lastToast = IF clipboardPresent THEN AfterClipboard(TRUE, SecretUrl)
                   ELSE AfterPost(CreatedOutcome, FALSE).toast
    /\ clipboardWrites = IF clipboardPresent THEN 1 ELSE 0
    /\ copies = <<>>
    /\ events = 2

\* The variables the copy buttons leave alone.
copyFrame ==
    << secretVars, mform, fieldErrors, clipboardPresent, validatedAt, submittedAt,
       submissions, posts, lastPost, lastAttempt, calls, lastDone, clipboardWrites >>

\* copyToClipboard (creation view): the button is rendered when secretUrl is set and
\* navigator.clipboard exists; the write is started, not awaited, and the
\* notification is shown at once.
CopyLink ==
    /\ Truthy(mform.secretUrl) /\ clipboardPresent
    /\ Acted
    /\ copies' = Append(copies, [view |-> "main", text |-> mform.secretUrl,
                                 phase |-> "writing", toast |-> "success"])
    /\ toasts' = toasts + 1
    /\ lastToast' = LinkCopiedToast(mform.secretUrl)
    /\ UNCHANGED copyFrame

\* handleCopyToClipboard (retrieval view) up to its await: the button is rendered
\* with the secret; without navigator.clipboard the call throws into the catch block.
CopySecret ==
    /\ mounted /\ Render(state).secret /= NULL
    /\ Acted
    /\ IF clipboardPresent
       THEN /\ copies' = Append(copies, [view |-> "secret", text |-> state.secretText,
                                         phase |-> "writing", toast |-> "none"])
            /\ UNCHANGED << toasts, lastToast >>
       ELSE /\ copies' = Append(copies, [view |-> "secret", text |-> state.secretText,
                                         phase |-> "unavailable", toast |-> "error"])
            /\ toasts' = toasts + 1
            /\ lastToast' = CopyFailedToast
    /\ UNCHANGED copyFrame

\* The clipboard write of copy i resolves or rejects; only handleCopyToClipboard
\* awaits it.
CopySettles(i, resolved) ==
    /\ copies[i].phase = "writing"
    /\ IF copies[i].view = "secret"
       THEN /\ copies' = [copies EXCEPT ![i].phase = IF resolved THEN "resolved" ELSE "rejected",
                                        ![i].toast = IF resolved THEN "success" ELSE "error"]
            /\ toasts' = toasts + 1
            /\ lastToast' = IF resolved THEN SecretCopiedToast(copies[i].text)
                            ELSE CopyFailedToast
       ELSE /\ copies' = [copies EXCEPT ![i].phase = IF resolved THEN "resolved" ELSE "rejected"]
            /\ UNCHANGED << toasts, lastToast >>
    /\ UNCHANGED << copyFrame, events >>

CopySettle == \E i \in 1..Len(copies), resolved \in BOOLEAN : CopySettles(i, resolved)

\* The creation view: the user edits one field at a time, submits, and copies the
\* link once it is shown, while the POSTs and the clipboard writes createSecret
\* awaits settle.  (copyToClipboard never looks at the result of its write.)
NextMain ==
    \/ EditSecretText \/ EditHitLimit \/ EditPassword \/ SelectDate \/ UpdateDateTime
    \/ SubmitForm \/ PostSettle \/ ClipboardSettle
    \/ CopyLink

SpecMain == InitMain /\ [][NextMain]_vars

NextCopy == CopyLink \/ CopySecret \/ CopySettle

SpecCopy == InitCopy /\ [][NextCopy]_vars

\* ------------------------------------------------------------------ properties
\* The text of a body as the server sent it, written out independently of the view.
BodyAsSent(b) ==
    IF b.kind = "json" THEN "{\"message\":\"" \o b.message \o "\"}" ELSE b.text

\* The most recent dispatch came from a response, and no fetch has started since
\* (every fetch start sets isLoading, and only another dispatch clears it).
LastIsResponse == last.outcome.kind = "response" /\ ~state.isLoading

\* The most recent dispatch came from a thrown value, and no fetch has started since.
LastIsThrow ==
    /\ last.outcome.kind \in {"fetch_throws", "text_throws", "encode_throws"}
    /\ ~state.isLoading

\* What t(key) gives under one or another of the page's translation tables.
Renderings(key) == { IF key \in DOMAIN d THEN d[key] ELSE key : d \in Dictionaries }

\* A request issued after the one that settled last has already settled before it.
LastIsStale == \E k \in 1..Len(applied) : applied[k] > last.req /\ last.req > 0

\* C1: whenever the most recently applied response is a 401 with body m, the view
\* is PasswordRequired carrying m (as one of the page's translation tables renders it):
\* needPassword, not loading, the password form rendered, and no secret text
\* held or shown.
C1_PasswordRequiredOn401 ==
    (LastIsResponse /\ last.outcome.status = 401) =>
        /\ state.errorText \in Renderings(BodyAsSent(last.outcome.body))
        /\ state.needPassword
        /\ ~state.isLoading
        /\ Render(state).form
        /\ ~Truthy(state.secretText)
        /\ Render(state).secret = NULL

\* C2 (as claimed): a response whose status is neither 200 nor 401 and whose body
\* is a JSON object with a message field m leaves the view Failed carrying m.
C2_FailedCarriesMessageField ==
    (/\ LastIsResponse
     /\ last.outcome.status \notin {200, 401}
     /\ last.outcome.body.kind = "json") =>
        /\ state.errorText = last.outcome.body.message
        /\ ~state.needPassword

\* C2 (amended): such a response leaves errorText equal to the whole body text as
\* sent (the JSON text, not the value of its message field), needPassword false
\* and isLoading false.
C2_FailedCarriesBodyText ==
    (/\ LastIsResponse
     /\ last.outcome.status \notin {200, 401}
     /\ last.outcome.body.kind = "json") =>
        /\ state.errorText = "{\"message\":\"" \o last.outcome.body.message \o "\"}"
        /\ ~state.needPassword
        /\ ~state.isLoading

\* C2 witness: a 500 with body {"message":"boom"} has been applied.
C2_Witness ==
    /\ LastIsResponse
    /\ last.outcome.status = 500
    /\ last.outcome.body = [kind |-> "json", message |-> "boom"]
    /\ state.errorText = "{\"message\":\"boom\"}"

\* C3: the state is always exactly one of Loading, Revealed(text),
\* PasswordRequired(message), Failed(message): never loading while holding a secret
\* text or a message, never a secret text together with a message or needPassword
\* (a text or message is held when the field is a non-empty string).
C3_SingleActiveState ==
    /\ state.isLoading =>
          ~Truthy(state.secretText) /\ ~Truthy(state.errorText) /\ ~state.needPassword
    /\ Truthy(state.secretText) => ~Truthy(state.errorText) /\ ~state.needPassword

\* C4: while isLoading is true a progress indicator is rendered and neither a
\* secret text nor an error/prompt message is shown.
C4_LoadingShowsOnlySpinner ==
    state.isLoading =>
        /\ Render(state).spinner
        /\ Render(state).secret = NULL
        /\ Render(state).error = NULL

\* C5: a fetch that completes with status 200 and body b leaves secretText = b,
\* errorText = null, needPassword = false and isLoading = false, whatever the
\* state was before.
C5_RevealedOn200 ==
    (LastIsResponse /\ last.outcome.status = 200) =>
        state = [secretText |-> BodyAsSent(last.outcome.body), errorText |-> NULL,
                 needPassword |-> FALSE, isLoading |-> FALSE]

\* C5 witness: a 200 "hello" is applied over an earlier outcome of the same mount.
C5_Witness ==
    /\ LastIsResponse
    /\ last.outcome.status = 200
    /\ last.outcome.body = [kind |-> "text", text |-> "hello"]
    /\ Len(applied) >= 2
    /\ state.secretText = "hello"

\* C6: when the HTTP call or the reading of the body throws an Error with message
\* e, the view ends Failed carrying exactly e (needPassword false, not loading),
\* and no exception ever escapes fetchSecret.
C6_ThrownErrorIsCaught ==
    /\ ~escaped
    /\ (LastIsThrow /\ last.outcome.thrown.isError) =>
          /\ state.errorText = last.outcome.thrown.message
          /\ ~state.needPassword
          /\ ~state.isLoading

\* C6 witness: response.text() threw Error("offline") and the view shows it.
C6_Witness ==
    /\ LastIsThrow
    /\ last.outcome.kind = "text_throws"
    /\ last.outcome.thrown = [isError |-> TRUE, message |-> "offline"]
    /\ state.errorText = "offline"

\* --- URL encoding, stated from the decoding side (RFC 3986 percent-decoding).
HexValue(d) == CHOOSE v \in 0..15 : HexDigits[v + 1] = d

IsHexDigit(d) == \E v \in 0..15 : HexDigits[v + 1] = d

\* Every character of e is an unreserved character or part of a %XX triple.
RECURSIVE WellEncoded(_)
WellEncoded(e) ==
    IF e = <<>> THEN TRUE
    ELSE IF Head(e) = "%"
    THEN /\ Len(e) >= 3
         /\ IsHexDigit(e[2])
         /\ IsHexDigit(e[3])
         /\ WellEncoded(SubSeq(e, 4, Len(e)))
    ELSE /\ Head(e) \in {"a", "p", "w"}
         /\ WellEncoded(Tail(e))

\* The bytes a well-encoded string stands for.
RECURSIVE PercentDecode(_)
PercentDecode(e) ==
    IF e = <<>> THEN <<>>
    ELSE IF Head(e) = "%"
    THEN <<16 * HexValue(e[2]) + HexValue(e[3])>> \o PercentDecode(SubSeq(e, 4, Len(e)))
    ELSE <<CodePoint(Head(e))>> \o PercentDecode(Tail(e))

\* The UTF-8 bytes of a password.
RECURSIVE Utf8Of(_)
Utf8Of(p) ==
    IF p = <<>> THEN <<>> ELSE Utf8(CodePoint(Head(p))) \o Utf8Of(Tail(p))

\* A password that passes the form's validation: some character is not a space.
NonBlank(p) == p /= UNDEFINED /\ \E i \in 1..Len(p) : p[i] /= " "

\* A password without unpaired surrogates, which is what can be URL-encoded.
WellFormed(p) == \A i \in 1..Len(p) : p[i] /= "\\uD800"

\* The step issues exactly one new request, a GET to
\* {apiSecretsUrl}/{c}?password=<URL-encoding of p>, and touches no earlier one.
IssuesPasswordGet(c, p) ==
    /\ Len(requests') = Len(requests) + 1
    /\ SubSeq(requests', 1, Len(requests)) = requests
    /\ LET r == requests'[Len(requests')]
           prefix == ApiSecretsUrl \o <<"/">> \o c \o <<"?", "p", "a", "s", "s", "w", "o", "r", "d", "=">>
           e == SubSeq(r.url, Len(prefix) + 1, Len(r.url))
       IN /\ r.method = "GET"
          /\ Len(r.url) >= Len(prefix)
          /\ SubSeq(r.url, 1, Len(prefix)) = prefix
          /\ WellEncoded(e)
          /\ PercentDecode(e) = Utf8Of(p)

\* The password form, rendered in PasswordRequired, is submitted holding p.
FormSubmitted(p) == mounted /\ Render(state).form /\ passwordField = p /\ Submit

\* C7 (as claimed): from PasswordRequired, each submission of the password form
\* with password p triggers exactly one new GET to {apiSecretsUrl}/{current code}
\* with query password=<URL-encoding of p>, and no other request.
C7_EverySubmissionIssuesGet ==
    [][\A p \in Passwords : FormSubmitted(p) => IssuesPasswordGet(code, p)]_vars

\* C7 (amended): from PasswordRequired, a submission whose password p passes the
\* form's validation (not empty, not blank) triggers exactly one new GET to
\* {apiSecretsUrl}/{current code} with query password=<URL-encoding of p>, and no
\* other request; when p holds an unpaired surrogate, which has no URL-encoding,
\* encodeURIComponent throws before the fetch: no request is issued and the view
\* is Failed with the URIError's message; a submission with an empty or blank
\* password issues no request.
C7_ValidSubmissionIssuesGet ==
    [][\A p \in Passwords :
          FormSubmitted(p) =>
              IF NonBlank(p) /\ WellFormed(p) THEN IssuesPasswordGet(code, p)
              ELSE /\ requests' = requests
                   /\ pending' = pending
                   /\ NonBlank(p) =>
                         /\ state'.errorText = "URI malformed"
                         /\ ~state'.isLoading
                         /\ ~state'.needPassword
                   /\ ~NonBlank(p) => state' = state]_vars

\* C7 witness: the form was submitted with " a&=e'" and the GET carrying its
\* encoding is the latest request, still pending.
C7_Witness ==
    /\ requests /= <<>>
    /\ requests[Len(requests)].cause = "submit"
    /\ requests[Len(requests)].password = <<" ", "a", "&", "=", "e'">>
    /\ Len(requests) \in pending
    /\ state.needPassword

\* C8: at most one GET is pending (issued and not yet settled) at any moment.
C8_AtMostOnePending == Cardinality(pending) <= 1

\* What the reducer state must be once outcome o has been dispatched, whatever
\* request it came from.
Reflects(o) ==
    IF o.kind = "response"
    THEN IF o.status = 200
         THEN /\ state.secretText = BodyAsSent(o.body)
              /\ state.errorText = NULL
              /\ ~state.needPassword
         ELSE IF o.status = 401
         THEN /\ state.needPassword
              /\ state.errorText \in Renderings(BodyAsSent(o.body))
         ELSE /\ ~state.needPassword
              /\ state.errorText \in IF BodyAsSent(o.body) = ""
                                     THEN Renderings("Failed to fetch the secret")
                                     ELSE { BodyAsSent(o.body) }
    ELSE /\ ~state.needPassword
         /\ state.errorText \in IF o.thrown.isError THEN { o.thrown.message }
                                ELSE Renderings("Unexpected error occurred")

\* C9: requests are not fenced: the outcome of a request that settles after a
\* later-issued request has settled (a stale outcome) is dispatched all the same
\* and overwrites the state the newer outcome produced.
C9_StaleOutcomeIsApplied ==
    (LastIsStale /\ ~state.isLoading) => Reflects(last.outcome)

\* C9 witness: the GET for the old code settles after the GET for the current
\* code, and the view shows the old code's secret.
C9_Witness ==
    /\ applied = <<2, 1>>
    /\ last.req = 1
    /\ requests[1].code /= code
    /\ requests[2].code = code
    /\ last.outcome.kind = "response"
    /\ last.outcome.status = 200
    /\ Render(state).secret = "hello"

\* C10 (as claimed): within one mount at most one GET is ever issued for each
\* distinct (code, password) pair.
C10_OneGetPerPair ==
    \A i, j \in 1..Len(requests) :
        (requests[i].code = requests[j].code /\ requests[i].password = requests[j].password)
            => i = j

\* A mount, a code change, or a submission of the form whose password passes
\* validation and can be URL-encoded (it holds no unpaired surrogate).
UserEvent ==
    \/ ~mounted /\ mounted'
    \/ code' /= code
    \/ \E p \in Passwords : NonBlank(p) /\ WellFormed(p) /\ FormSubmitted(p)

\* C10 (amended): within one mount every mount, every code change and every
\* submission of a valid password that can be URL-encoded issues exactly one GET,
\* for the current code, also when a GET for the same (code, password) pair was
\* issued before; no other step issues one, and neither does the submission of a
\* valid password that holds an unpaired surrogate.
C10_OneGetPerEvent ==
    [][IF UserEvent
       THEN /\ Len(requests') = Len(requests) + 1
            /\ SubSeq(requests', 1, Len(requests)) = requests
            /\ requests'[Len(requests')].code = code'
       ELSE requests' = requests]_vars

\* C10 witness: the same (code, password) pair has been requested twice, by a
\* resubmission of the same password.
C10_Witness ==
    \E i, j \in 1..Len(requests) :
        /\ i < j
        /\ requests[i].code = requests[j].code
        /\ requests[i].password = requests[j].password
        /\ requests[j].cause = "submit"

\* C11: whenever the code parameter changes while the view stays mounted, the
\* view is reset to the Loading state of the initial mount (no secret text, no
\* message, needPassword false, isLoading true) and exactly one GET without a
\* password parameter is issued for the new code.
C11_CodeChangeResets ==
    [][(mounted /\ code' /= code) =>
          /\ ~Truthy(state'.secretText)
          /\ ~Truthy(state'.errorText)
          /\ ~state'.needPassword
          /\ state'.isLoading
          /\ Len(requests') = Len(requests) + 1
          /\ SubSeq(requests', 1, Len(requests)) = requests
          /\ requests'[Len(requests')].url = ApiSecretsUrl \o <<"/">> \o code']_vars

\* A step in which a pending GET settles.
Completion == applied' /= applied

\* C18: every GET is issued by exactly one user-driven event (the mount, a change
\* of the code parameter, a valid password-form submission), one GET per event;
\* the completion of a fetch, with any outcome, never issues a request.
C18_OnlyUserEventsIssueGets ==
    [][/\ Completion => (requests' = requests /\ pending' \subseteq pending)
       /\ requests' /= requests =>
             /\ UserEvent
             /\ ~Completion
             /\ Len(requests') = Len(requests) + 1
             /\ Cardinality(pending' \ pending) = 1]_vars

\* C18 witness: the only GET issued has failed (status 500) and nothing is pending:
\* no retry followed.
C18_Witness ==
    /\ Len(requests) = 1
    /\ pending = {}
    /\ LastIsResponse
    /\ last.outcome.status = 500
    /\ state.errorText = "hello"

\* C19: the Failed state always carries a non-empty message: for a response with a
\* status other than 200 and 401 the body when it is non-empty and the local
\* fallback text (in one of the page's languages) when it is empty; for a caught
\* exception its message, or the local fallback text when the thrown value is not
\* an Error.
C19_FailedCarriesMessage ==
    /\ (LastIsResponse /\ last.outcome.status \notin {200, 401}) =>
          /\ state.errorText \in IF BodyAsSent(last.outcome.body) /= ""
                                 THEN { BodyAsSent(last.outcome.body) }
                                 ELSE Renderings("Failed to fetch the secret")
          /\ state.errorText \notin {NULL, ""}
          /\ ~state.needPassword
    /\ LastIsThrow =>
          /\ state.errorText \in IF last.outcome.thrown.isError
                                 THEN { last.outcome.thrown.message }
                                 ELSE Renderings("Unexpected error occurred")
          /\ state.errorText \notin {NULL, ""}
          /\ ~state.needPassword

\* Every GET so far has settled before any GET issued after it.
SettledInOrder ==
    \A k, l \in 1..Len(applied) : k < l => applied[k] < applied[l]

\* C20: once the code has changed and the fetch for the new code has completed
\* (with any outcome), no secret text fetched for a previous code is held or
\* rendered: a secret text held belongs to the current code.  Stated for the
\* runs without stale outcomes, where the claim fails all the same.
C20_SecretBelongsToCode ==
    (/\ SettledInOrder
     /\ requests /= <<>>
     /\ requests[Len(requests)].code = code
     /\ Len(requests) \notin pending
     /\ Truthy(state.secretText)) =>
        secretCode = code

\* ------------------------------------------------------------------ creation view: properties
\* The hit limit inputs that denote a positive integer.
PositiveIntegerLiterals == { <<"1">>, <<"1", "e", "1">> }

\* The expiration the form holds lies after clock value now (of today).
ExpiresAfter(now) ==
    /\ mform.dateTime /= NoDate
    /\ mform.dateTime[1] > 0 \/ (mform.dateTime[1] = 0 /\ mform.dateTime[2] > now)

\* A step of SubmitForm that ran createSecret.
Submitted == posts' = posts + 1 /\ submissions' = submissions + 1

\* A step of SubmitForm: the values are validated, nothing is edited or settled.
SubmitStep ==
    /\ mform' = mform /\ lastDone' = lastDone
    /\ \A i \in 1..Len(calls) : calls'[i] = calls[i]
    /\ validatedAt' /= validatedAt \/ fieldErrors' /= fieldErrors \/ posts' /= posts

\* C12: a POST is issued only for a submission whose secret text is non-empty, whose
\* hit limit is a positive integer (1, or 10 written 1e1, and sent as that number)
\* and whose expiration is strictly later than the clock at validation; a submission
\* whose expiration is not later than the clock is rejected: it is reported on the
\* dateTime field and nothing is sent.
C12_PostOnlyForValidSubmission ==
    [][/\ (posts' /= posts \/ Len(calls') > Len(calls)) =>
             /\ mform.secretText /= NULL /\ mform.secretText /= ""
             /\ mform.hitLimit \in PositiveIntegerLiterals
             /\ lastPost'.body.hitLimit = (IF mform.hitLimit = <<"1">> THEN <<1>> ELSE <<1, 0>>)
             /\ ExpiresAfter(validatedAt')
       /\ (SubmitStep /\ ~ExpiresAfter(validatedAt')) =>
             /\ "dateTime" \in fieldErrors'
             /\ posts' = posts /\ calls' = calls /\ lastPost' = lastPost]_vars

\* C12 witness: the form was submitted at the very instant of its expiration, with
\* a secret text and hit limit 1; the submission was rejected on the dateTime field
\* alone and nothing has been sent.
C12_Witness ==
    /\ lastAttempt.at = 300000
    /\ lastAttempt.form.dateTime = << 0, 300000 >>
    /\ lastAttempt.form.secretText = "s3cret"
    /\ lastAttempt.form.hitLimit = <<"1">>
    /\ lastAttempt.refused = {"dateTime"}
    /\ fieldErrors = {"dateTime"}
    /\ posts = 0 /\ lastPost = NoPost /\ calls = <<>>

\* C13: the ttl of every POST is (expiration - submission time) / 1000 rounded to the
\* nearest whole second (halves upwards), and it is never negative.
C13_TtlRoundedAndNonNegative ==
    [][Submitted =>
          LET ttl == lastPost'.body.ttl
              seconds == ttl - mform.dateTime[1] * SecondsPerDay
              diff == mform.dateTime[2] - submittedAt'
          IN /\ MsPerSecond * seconds - 500 <= diff
             /\ diff < MsPerSecond * seconds + 500
             /\ ttl >= 0]_vars

\* The last createSecret to finish had received a 2xx response carrying a url.
LastSucceededWithUrl ==
    \/ /\ lastDone.outcome.kind = "response"
       /\ lastDone.outcome.status \in 200..299
       /\ lastDone.outcome.body = [kind |-> "json", obj |-> UrlObject]
    \/ /\ lastDone.outcome.kind = "clipboard"
       /\ lastDone.outcome.url = SecretUrl

\* C14: after a 2xx response carrying a url, the notification shown is a confirmation
\* (not an error) carrying the url, whether or not the clipboard is available.
C14_SuccessIsConfirmed ==
    LastSucceededWithUrl =>
        /\ lastToast.variant /= "destructive"
        /\ lastToast.description = SecretUrl

\* C15: after a non-2xx response the notification is an error whose description is
\* the message of the body when it carries one and the status text otherwise.
C15_FailureShowsMessageOrStatusText ==
    (lastDone.outcome.kind = "response" /\ lastDone.outcome.status \notin 200..299) =>
        /\ lastToast.variant = "destructive"
        /\ lastToast.description \in
              CASE lastDone.outcome.body = [kind |-> "json", obj |-> MessageObject] ->
                     { "Invalid ttl" }
                [] lastDone.outcome.body = [kind |-> "json", obj |-> EmptyObject] ->
                     { "Internal Server Error" }
                [] lastDone.outcome.body = [kind |-> "json", obj |-> UrlObject] ->
                     { "Internal Server Error" }
                [] lastDone.outcome.body.kind = "text" ->
                     { lastDone.outcome.body.text, "Internal Server Error" }

\* The phases of a createSecret call, in the order it goes through them.
PhaseRank(phase) ==
    CASE phase = "pending" -> 0
      [] phase = "copying" -> 1
      [] phase = "done" -> 2

\* C16: the number of POSTs always equals the number of valid submissions, one call
\* per POST; a settling POST sends nothing; a call writes to the clipboard at most
\* once (only when it leaves the pending phase, to which it never returns).
C16_OnePostPerSubmission ==
    [][/\ posts' = submissions' /\ Len(calls') = posts'
       /\ posts' /= posts => Submitted
       /\ \A i \in 1..Len(calls) :
             /\ PhaseRank(calls'[i].phase) >= PhaseRank(calls[i].phase)
             /\ calls'[i].phase /= calls[i].phase => posts' = posts
       /\ clipboardWrites' /= clipboardWrites =>
             /\ clipboardWrites' = clipboardWrites + 1
             /\ Cardinality({ i \in 1..Len(calls) :
                     calls[i].phase = "pending" /\ calls'[i].phase = "copying" }) = 1]_vars

\* C16 witness: two submissions, two POSTs; the first succeeded and wrote to the
\* clipboard once, the second failed with status 500 and nothing more was sent.
C16_Witness ==
    /\ submissions = 2 /\ posts = 2
    /\ \A i \in 1..Len(calls) : calls[i].phase = "done"
    /\ clipboardWrites = 1
    /\ lastDone.call = 2
    /\ lastDone.outcome.kind = "response" /\ lastDone.outcome.status = 500

\* The step ends a createSecret whose fetch threw or whose body was not JSON.
TransportOrParseFailure ==
    /\ lastDone' /= lastDone
    /\ \/ lastDone'.outcome.kind = "fetch_throws"
       \/ lastDone'.outcome.kind = "response" /\ lastDone'.outcome.body.kind = "text"

\* C17: when the POST throws or the response body cannot be parsed, the call ends
\* with exactly one notification, the generic unexpected error, and every field of
\* the form keeps its value.
C17_CaughtWithFormUnchanged ==
    [][TransportOrParseFailure =>
          /\ calls'[lastDone'.call].phase = "done"
          /\ toasts' = toasts + 1
          /\ lastToast' = [title |-> "Unexpected error", status |-> 0,
                           description |-> "Please try again later.",
                           variant |-> "destructive"]
          /\ mform' = mform]_vars

\* C17 witness: the fetch threw; the generic error is shown and the form still holds
\* what the user typed.
C17_Witness ==
    /\ lastDone.outcome.kind = "fetch_throws"
    /\ lastToast.title = "Unexpected error"
    /\ toasts = 1
    /\ mform.secretText = "s3cret" /\ mform.dateTime = << YearDays, 0 >>
    /\ mform.hitLimit = <<"1">> /\ mform.password = ""

\* ------------------------------------------------------------------ further properties
\* C21: while any GET is pending the password form is not rendered (the view is
\* loading), so no password can be submitted while a request is in flight.
C21_NoFormWhilePending ==
    pending /= {} => ~Render(state).form

\* C22: once mounted, the view is not loading whenever no request is pending, and
\* every loading state is eventually followed by one that is not loading.
C22_LoadingEnds ==
    /\ []((mounted /\ pending = {}) => ~state.isLoading)
    /\ ((mounted /\ state.isLoading) ~> ~state.isLoading)

\* C22 witness: the only request ended with a thrown value that is not an Error,
\* nothing is pending and the view has left Loading.
C22_Witness ==
    /\ mounted /\ pending = {} /\ Len(requests) = 1
    /\ last.outcome.kind = "fetch_throws" /\ ~last.outcome.thrown.isError
    /\ ~state.isLoading

\* C23: whenever the view is not loading after a fetch has completed, it renders
\* the secret text, or a message, or the password form.
C23_NeverRendersNothing ==
    (applied /= <<>> /\ ~state.isLoading) =>
        \/ Render(state).secret /= NULL
        \/ Render(state).error /= NULL
        \/ Render(state).form

\* The passwords local validation must reject: missing, empty, white space only.
BlankPasswords == { UNDEFINED, <<>>, <<" ", " ">> }

\* C24: a missing, empty or blank password is rejected by the form's validation,
\* and submitting the password form with one issues no GET and leaves secretText,
\* errorText, needPassword and isLoading as they were.  (The field holds a string
\* from the start, so the form is never submitted with a missing password.)
C24_BlankPasswordRejected ==
    [][\A p \in BlankPasswords :
          /\ ~FormSchemaValid(p)
          /\ FormSubmitted(p) =>
                /\ requests' = requests /\ pending' = pending
                /\ state' = state]_vars

\* C24 witness: the form was submitted with a blank password and rejected on the
\* password field; the view is still PasswordRequired and the mount GET is the only
\* request.
C24_Witness ==
    /\ isSubmitted
    /\ passwordField = <<" ", " ">>
    /\ formError \in Renderings("Password is required")
    /\ state.needPassword /\ ~state.isLoading
    /\ Len(requests) = 1 /\ pending = {}

\* C25: a copy whose clipboard write failed, or which found no clipboard API, has
\* shown no success notification.
C25_NoSuccessToastForFailedCopy ==
    \A i \in 1..Len(copies) :
        copies[i].phase \in {"rejected", "unavailable"} => copies[i].toast /= "success"

\* C26: the ttl of the POST sent is never negative.
C26_TtlNeverNegative ==
    lastPost /= NoPost => lastPost.body.ttl >= 0

====
